---- MODULE Spec2Model ----
(***************************************************************************)
(* Aether backend (src/backend/app.py): the streaming interceptor of       *)
(* _stream_chat, which separates user-visible text from <<<SAVE_MEMORY:    *)
(* and <<<SUGGEST_MEMORY: directives, and the memory store (SQLite table   *)
(* plus best-effort ChromaDB index) with its three-tier search.            *)
(*                                                                         *)
(* Text is a sequence of one-character strings.  Indices follow Python:    *)
(* 0-based, slices half-open.                                              *)
(***************************************************************************)
EXTENDS Integers, Sequences, FiniteSets, TLC

VARIABLES
    phase,            \* position of _stream_chat: connecting/streaming/completed/failed/crashed
    tool_buffer,      \* local tool_buffer of _stream_chat
    collecting_tool,  \* local collecting_tool: NoTool (False) or the start marker
    events,           \* everything the generator has yielded, in order
    received,         \* history: concatenation of every token read so far
    done_seen,        \* history: a chunk flagged done has been read
    db,               \* rows of the SQLite table memories
    chroma,           \* entries of the ChromaDB collection memories
    now,              \* CURRENT_TIMESTAMP, in seconds
    result,           \* what the last search_memories call returned
    inflight,         \* per caller: the persist_memory or remove_memory call it is in
    last_write        \* history: per title, the last write concurrent callers committed

vars == <<phase, tool_buffer, collecting_tool, events, received, done_seen, db, chroma,
          now, result, inflight, last_write>>

----------------------------------------------------------------------------
(* Python string primitives *)

Min(S) == CHOOSE x \in S : \A y \in S : x <= y

\* s[:n], s[n:] and s[a:b] for indices >= 0, clamped to the length as Python does
Take(s, n) == SubSeq(s, 1, IF n < Len(s) THEN n ELSE Len(s))

Drop(s, n) == SubSeq(s, (IF n < Len(s) THEN n ELSE Len(s)) + 1, Len(s))

Slice(s, a, b) == Drop(Take(s, b), a)

\* s.find(sub, start): lowest index >= start where sub occurs, else -1
find(s, sub, start) ==
    LET at == {i \in start..(Len(s) - Len(sub)) : SubSeq(s, i + 1, i + Len(sub)) = sub}
    IN  IF at = {} THEN -1 ELSE Min(at)

\* sub in s
Contains(s, sub) == find(s, sub, 0) # -1

UpperCase ==
    <<"A", "B", "C", "D", "E", "F", "G", "H", "I", "J", "K", "L", "M", "N", "O", "P",
      "Q", "R", "S", "T", "U", "V", "W", "X", "Y", "Z">>

LowerCase ==
    <<"a", "b", "c", "d", "e", "f", "g", "h", "i", "j", "k", "l", "m", "n", "o", "p",
      "q", "r", "s", "t", "u", "v", "w", "x", "y", "z">>

\* the characters str.strip() and str.split() treat as white space
WhiteSpace == {" ", "\t", "\n", "\r"}

LowerChar(c) ==
    IF \E i \in 1..Len(UpperCase) : UpperCase[i] = c
    THEN LowerCase[CHOOSE i \in 1..Len(UpperCase) : UpperCase[i] = c]
    ELSE c

\* s.lower()
lower(s) == [i \in 1..Len(s) |-> LowerChar(s[i])]

\* s.replace(" ", "_")
replace_spaces(s) == [i \in 1..Len(s) |-> IF s[i] = " " THEN "_" ELSE s[i]]

\* s.strip()
strip(s) ==
    LET ink == {i \in 1..Len(s) : s[i] \notin WhiteSpace}
    IN  IF ink = {} THEN <<>>
        ELSE SubSeq(s, Min(ink), CHOOSE j \in ink : \A k \in ink : k <= j)

----------------------------------------------------------------------------
(* Directive markers *)

SAVE_MARKER ==
    <<"<", "<", "<", "S", "A", "V", "E", "_", "M", "E", "M", "O", "R", "Y", ":">>

SUGGEST_MARKER ==
    <<"<", "<", "<", "S", "U", "G", "G", "E", "S", "T", "_", "M", "E", "M", "O", "R",
      "Y", ":">>

TOOL_MARKERS == <<SAVE_MARKER, SUGGEST_MARKER>>

TOOL_END == <<">", ">", ">">>

\* collecting_tool = False
NoTool == <<>>

\* no search_memories call has a result waiting for its caller
NoResult == [called |-> FALSE]

\* the callers of the store that run at the same time: the event loop, which runs
\* _stream_chat, and a worker thread, which runs a REST endpoint
Callers == {"loop", "worker"}

\* the caller is in no persist_memory or remove_memory call and has made none
Idle == [step |-> "idle"]

\* mutant of HOLD_BACK: only as many characters as the end marker has are kept back
HoldBackEndMarkerOnly == Len(TOOL_END)

\* the number of trailing characters the scanning branch keeps back
HOLD_BACK == 20

----------------------------------------------------------------------------
(* SQLite table memories and the ChromaDB collection *)

Titles(rows) == {r.title : r \in rows}

\* mutant of db_upsert: INSERT OR IGNORE, a row of the title is left as it is
db_upsert_or_ignore(rows, title, content, ts) ==
    IF title \in Titles(rows)
    THEN rows
    ELSE rows \cup {[title |-> title, content |-> content,
                     created_at |-> ts, updated_at |-> ts]}

\* INSERT ... ON CONFLICT(title) DO UPDATE SET content, updated_at
db_upsert(rows, title, content, ts) ==
    IF title \in Titles(rows)
    THEN {IF r.title = title THEN [r EXCEPT !.content = content, !.updated_at = ts] ELSE r
             : r \in rows}
    ELSE rows \cup {[title |-> title, content |-> content,
                     created_at |-> ts, updated_at |-> ts]}

\* DELETE FROM memories WHERE title = ?
db_delete(rows, title) == {r \in rows : r.title # title}

\* memory_collection.upsert(ids=[title], documents=[content], metadatas=[{title}])
chroma_upsert(coll, title, content) ==
    {e \in coll : e.id # title}
        \cup {[id |-> title, document |-> content, title |-> title]}

\* memory_collection.delete(ids=[title])
chroma_delete(coll, title) == {e \in coll : e.id # title}

\* How one persist_memory call goes: the table write raises ("db_error"), or it
\* commits and then the embedding is obtained and the index written ("ok"), no
\* candidate model yields an embedding ("no_embedding"), or the index write raises
\* ("index_error").
PersistOutcomes == {"ok", "no_embedding", "index_error", "db_error"}

\* _chroma_upsert under the try/except of persist_memory
index_upsert(coll, title, content, outcome) ==
    IF outcome = "ok" THEN chroma_upsert(coll, title, content) ELSE coll

\* persist_memory: db_upsert first; nothing is changed when it raises
persist_memory(rows, coll, title, content, ts, outcome) ==
    IF outcome = "db_error"
    THEN [db |-> rows, chroma |-> coll, raised |-> TRUE]
    ELSE [db |-> db_upsert(rows, title, content, ts),
          chroma |-> index_upsert(coll, title, content, outcome),
          raised |-> FALSE]

----------------------------------------------------------------------------
(* Events yielded by _stream_chat.  pos and end are bookkeeping, not part   *)
(* of the payload: the offsets in the received text of the characters the  *)
(* event was made from.                                                    *)

Event0 ==
    [type |-> "", token |-> <<>>, tool |-> "", title |-> <<>>, content |-> <<>>,
     error |-> "", pos |-> 0, end |-> 0]

TokenEvent(text, pos) ==
    [Event0 EXCEPT !.type = "token", !.token = text, !.pos = pos, !.end = pos + Len(text)]

ToolEvent(tool, title, content, pos, end) ==
    [Event0 EXCEPT !.type = "tool", !.tool = tool, !.title = title,
                   !.content = content, !.pos = pos, !.end = end]

ErrorEvent(body) == [Event0 EXCEPT !.type = "error", !.error = body]

DoneEvent == [Event0 EXCEPT !.type = "done"]

----------------------------------------------------------------------------
(* The interceptor loop of _stream_chat *)

\* the for loop over TOOL_MARKERS: the marker with the lowest index wins
FoundMarker(buf) ==
    LET step(acc, marker) ==
            LET idx == find(buf, marker, 0)
            IN  IF idx # -1 /\ idx < acc.idx THEN [marker |-> marker, idx |-> idx] ELSE acc
        none == [marker |-> NoTool, idx |-> Len(buf)]
    IN  step(step(none, TOOL_MARKERS[1]), TOOL_MARKERS[2])

\* safe = tool_buffer[:-20] if len(tool_buffer) > 20 else ""
Safe(buf) == IF Len(buf) > HOLD_BACK THEN Take(buf, Len(buf) - HOLD_BACK) ELSE <<>>

\* mutant of KeptBack: one character fewer is kept
KeptBackOneShort(buf) ==
    IF Len(buf) > HOLD_BACK THEN Drop(buf, Len(buf) - HOLD_BACK + 1) ELSE buf

\* mutant of KeptBack: the yielded text is not cut off the buffer
KeptBackAll(buf) == buf

\* tool_buffer[-20:]
KeptBack(buf) == IF Len(buf) > HOLD_BACK THEN Drop(buf, Len(buf) - HOLD_BACK) ELSE buf

\* tool_buffer.find(TOOL_END, len(collecting_tool))
EndIndex(buf, marker) == find(buf, TOOL_END, Len(marker))

\* title.strip().replace(" ", "_").lower()
NormTitle(t) == lower(replace_spaces(strip(t)))

\* content.strip()
NormContent(c) == strip(c)

\* mutant of HasSeparator: a body without '|' is not told apart
HasSeparatorAlways(call_body) == TRUE

\* "|" in call_body
HasSeparator(call_body) == Contains(call_body, <<"|">>)

\* mutant of SplitBody: the body is split at its last '|'
SplitBodyAtLastBar(call_body) ==
    LET bars == {i \in 0..(Len(call_body) - 1) : call_body[i + 1] = "|"}
        bar == IF bars = {} THEN -1 ELSE CHOOSE i \in bars : \A j \in bars : j <= i
    IN  [title |-> Take(call_body, bar), content |-> Drop(call_body, bar + 1)]

\* call_body.split("|", 1)
SplitBody(call_body) ==
    LET bar == find(call_body, <<"|">>, 0)
    IN  [title |-> Take(call_body, bar), content |-> Drop(call_body, bar + 1)]

\* mutant of StartDirective: the text before the marker is not yielded
StartDirectiveNoFlush(s, f, total) ==
    [s EXCEPT !.buf = Drop(s.buf, f.idx), !.col = f.marker]

\* if found_marker is not None: yield the text before the marker, keep the rest and
\* collect.  f is what the marker loop found; total the characters received so far.
StartDirective(s, f, total) ==
    [s EXCEPT !.evs = IF f.idx > 0
                      THEN Append(@, TokenEvent(Take(s.buf, f.idx), total - Len(s.buf)))
                      ELSE @,
              !.buf = Drop(s.buf, f.idx),
              !.col = f.marker]

\* else: yield safe, if any, and keep the last 20 characters
FlushSafe(s, total) ==
    IF Safe(s.buf) # <<>>
    THEN [s EXCEPT !.evs = Append(@, TokenEvent(Safe(s.buf), total - Len(s.buf))),
                   !.buf = KeptBack(s.buf)]
    ELSE s

\* mutant of EndDirective: the confirmation is yielded before persist_memory is called
EndDirectiveConfirmFirst(s, end_idx, total, outcome) ==
    LET call_body == Slice(s.buf, Len(s.col), end_idx)
        after == Drop(s.buf, end_idx + Len(TOOL_END))
        is_save == s.col = SAVE_MARKER
        pos == total - Len(s.buf)
        end == pos + end_idx + Len(TOOL_END)
        title == NormTitle(SplitBody(call_body).title)
        content == NormContent(SplitBody(call_body).content)
        p == persist_memory(s.db, s.chroma, title, content, s.ts, outcome)
        s1 == [s EXCEPT !.col = NoTool, !.buf = after]
        s2 == [s1 EXCEPT !.evs = Append(@, ToolEvent(IF is_save THEN "save_memory"
                                                     ELSE "suggest_memory",
                                                     title, content, pos, end))]
    IN  IF ~HasSeparator(call_body) THEN s1
        ELSE IF ~is_save THEN s2
             ELSE IF p.raised
                  THEN [s2 EXCEPT !.raised = TRUE, !.calls = @ + 1]
                  ELSE [s2 EXCEPT !.db = p.db, !.chroma = p.chroma, !.calls = @ + 1]

\* mutant of EndDirective: a Suggest directive is handled as a Save directive
EndDirectiveAlwaysSave(s, end_idx, total, outcome) ==
    LET call_body == Slice(s.buf, Len(s.col), end_idx)
        after == Drop(s.buf, end_idx + Len(TOOL_END))
        pos == total - Len(s.buf)
        end == pos + end_idx + Len(TOOL_END)
        s1 == [s EXCEPT !.col = NoTool, !.buf = after]
        title == NormTitle(SplitBody(call_body).title)
        content == NormContent(SplitBody(call_body).content)
        p == persist_memory(s.db, s.chroma, title, content, s.ts, outcome)
    IN  IF ~HasSeparator(call_body) THEN s1
        ELSE IF p.raised
             THEN [s1 EXCEPT !.raised = TRUE, !.calls = @ + 1]
             ELSE [s1 EXCEPT !.db = p.db, !.chroma = p.chroma, !.calls = @ + 1,
                             !.evs = Append(@, ToolEvent("save_memory", title, content,
                                                         pos, end))]

\* the end marker was found at end_idx: cut the directive out of the buffer and, when
\* its body has a '|', persist and confirm it (Save) or suggest it.  outcome is how
\* the persist_memory call goes, if there is one.
EndDirective(s, end_idx, total, outcome) ==
    LET call_body == Slice(s.buf, Len(s.col), end_idx)
        after == Drop(s.buf, end_idx + Len(TOOL_END))
        is_save == s.col = SAVE_MARKER
        pos == total - Len(s.buf)
        end == pos + end_idx + Len(TOOL_END)
        s1 == [s EXCEPT !.col = NoTool, !.buf = after]
        title == NormTitle(SplitBody(call_body).title)
        content == NormContent(SplitBody(call_body).content)
        p == persist_memory(s.db, s.chroma, title, content, s.ts, outcome)
    IN  IF ~HasSeparator(call_body) THEN s1
        ELSE IF ~is_save
             THEN [s1 EXCEPT !.evs = Append(@, ToolEvent("suggest_memory", title, content,
                                                         pos, end))]
             ELSE IF p.raised
                  THEN [s1 EXCEPT !.raised = TRUE, !.calls = @ + 1]
                  ELSE [s1 EXCEPT !.db = p.db, !.chroma = p.chroma, !.calls = @ + 1,
                                  !.evs = Append(@, ToolEvent("save_memory", title, content,
                                                              pos, end))]

\* The while True loop run on one line of the reply.  s holds the locals and the
\* store; total is the number of characters received so far; oracle[k] is how the
\* k-th persist_memory call of this line goes.  A raising persist_memory ends it.
RECURSIVE Intercept(_, _, _)
Intercept(s, total, oracle) ==
    IF s.col = NoTool
    THEN IF FoundMarker(s.buf).marker # NoTool
         THEN Intercept(StartDirective(s, FoundMarker(s.buf), total), total, oracle)
         ELSE FlushSafe(s, total)
    ELSE IF EndIndex(s.buf, s.col) = -1
         THEN s
         ELSE LET e == EndDirective(s, EndIndex(s.buf, s.col), total,
                                    IF s.calls + 1 \in DOMAIN oracle
                                    THEN oracle[s.calls + 1] ELSE "ok")
              IN  IF e.raised THEN e ELSE Intercept(e, total, oracle)

\* mutant of FlushOnDone: the rest of the buffer is never yielded
FlushOnDoneNever(s, total) == s

\* mutant of FlushOnDone: the rest of the buffer is yielded also while collecting
FlushOnDoneAlways(s, total) ==
    IF s.buf # <<>>
    THEN [s EXCEPT !.evs = Append(@, TokenEvent(s.buf, total - Len(s.buf)))]
    ELSE s

\* if chunk.get("done"): the rest of the buffer is yielded unless collecting
FlushOnDone(s, total) ==
    IF s.buf # <<>> /\ s.col = NoTool
    THEN [s EXCEPT !.evs = Append(@, TokenEvent(s.buf, total - Len(s.buf)))]
    ELSE s

----------------------------------------------------------------------------
(* Replies of the chat backend.  A reply reaches _stream_chat cut into      *)
(* fragments at arbitrary places and may stop after any prefix.            *)

Hi == <<"H", "i", "!", " ">>

GotIt == <<" ", "G", "o", "t", " ", "i", "t", ".">>

Sure == <<"S", "u", "r", "e", ".", " ">>

AllDone == <<">", " ", "A", "l", "l", " ", "d", "o", "n", "e", ".">>

Lookalike ==
    <<"x", " ", "<", "<", "<", "S", "A", "V", "E", "_", "M", "E", " ", "y", " ", ">",
      ">", " ", "z", " ", "<", "<", "<", "S">>

BodyTea ==
    <<" ", "F", "o", "o", " ", "B", "a", "r", " ", "|", " ", "l", "i", "k", "e", "s",
      " ", "|", " ", "T", "e", "a", " ">>

BodyCat == <<"c", "a", "t", "|", "T", "o", "m">>

BodyNoSep == <<"n", "o", "_", "s", "e", "p">>

BodyAB == <<"a", "|", "b">>

BodyAC == <<"a", "|", "c">>

BodyPQ == <<"\t", "P", " ", "q", " ", "|", "r", ">", ">", "\n">>

BodyST == <<"s", "|", "t">>

Noted == <<"N", "o", "t", "e", "d", ",", " ", "o", "k", ":", " ">>

SavePart == <<"<", "<", "<", "S", "A", "V", "E", "_">>

MemPart == <<"M", "E", "M", "O", "R", "Y", ":", "q">>

And == <<" ", "a", "n", "d", " ">>

Replies ==
    { \* Hi! <<<SAVE_MEMORY: Foo Bar | likes | Tea >>> Got it.
      Hi \o SAVE_MARKER \o BodyTea \o TOOL_END \o GotIt,
      \* Sure. <<<SUGGEST_MEMORY:cat|Tom>>>> All done.
      Sure \o SUGGEST_MARKER \o BodyCat \o TOOL_END \o AllDone,
      \* Hi! <<<SUGGEST_MEMORY:no_sep>>> Got it.
      Hi \o SUGGEST_MARKER \o BodyNoSep \o TOOL_END \o GotIt,
      \* <<<SAVE_MEMORY:a|b>>><<<SAVE_MEMORY:a|c>>>
      SAVE_MARKER \o BodyAB \o TOOL_END \o SAVE_MARKER \o BodyAC \o TOOL_END,
      \* x <<<SAVE_ME y >> z <<<S
      Lookalike,
      \* Noted, ok: <<<SAVE_MEMORY:s|t>>> and
      Noted \o SAVE_MARKER \o BodyST \o TOOL_END \o And,
      \* <<<SAVE_MEMORY:>>>>|x
      SAVE_MARKER \o TOOL_END \o <<">", "|", "x">>,
      \* <<<<SUGGEST_MEMORY:|>>>
      <<"<">> \o SUGGEST_MARKER \o <<"|">> \o TOOL_END,
      \* <<<SAVE_MEMORY:T<<<SUGGEST_MEMORY:|c>>>x
      SAVE_MARKER \o <<"T">> \o SUGGEST_MARKER \o <<"|", "c">> \o TOOL_END \o <<"x">>,
      \* <<<SAVE_<<<SAVE_MEMORY:x>>>MEMORY:q
      SavePart \o SAVE_MARKER \o <<"x">> \o TOOL_END \o MemPart,
      \* <<<SUGGEST_MEMORY:\tP q |r>>\n>>> and <<<SAVE_MEMORY:s|t>>>.
      SUGGEST_MARKER \o BodyPQ \o TOOL_END \o And \o SAVE_MARKER \o BodyST
          \o TOOL_END \o <<".">> }

\* the longest fragment the backend sends, short of sending all the rest at once
MaxCut == 24

IsPrefix(p, s) == Len(p) <= Len(s) /\ Take(s, Len(p)) = p

\* the fragments that may follow what has been received
NextTokens ==
    LET ahead == {Drop(r, Len(received)) : r \in {q \in Replies : IsPrefix(received, q)}}
    IN  ahead \cup {Take(a, k) : a \in ahead, k \in 0..MaxCut}

\* the table and the index when the exchange starts: one indexed memory
InitialRows ==
    {[title |-> <<"a">>, content |-> <<"o", "l", "d">>, created_at |-> 0, updated_at |-> 0]}

InitialIndex == {[id |-> <<"a">>, document |-> <<"o", "l", "d">>, title |-> <<"a">>]}

----------------------------------------------------------------------------
(* One chat exchange: _stream_chat *)

Locals ==
    [buf |-> tool_buffer, col |-> collecting_tool, evs |-> events, db |-> db,
     chroma |-> chroma, ts |-> now, calls |-> 0, raised |-> FALSE]

\* every persist_memory call of the line succeeding
AllOk(n) == [k \in 1..n |-> "ok"]

\* resp.status_code of the chat backend
Respond(status) ==
    /\ phase = "connecting"
    /\ IF status # 200
       THEN /\ events' = Append(events, ErrorEvent("body"))
            /\ phase' = "failed"
       ELSE /\ events' = events
            /\ phase' = "streaming"
    /\ UNCHANGED <<tool_buffer, collecting_tool, received, done_seen, db, chroma, now,
                   result,
                   inflight, last_write>>

\* one line of resp.aiter_lines(): a chunk with a token and a done flag
Chunk(token, done) ==
    /\ phase = "streaming"
    /\ LET total == Len(received) + Len(token)
           s0 == [Locals EXCEPT !.buf = @ \o token]
           calls == Intercept(s0, total, AllOk(Len(s0.buf))).calls
       IN  \E oracle \in [1..calls -> PersistOutcomes] :
               LET s == Intercept(s0, total, oracle)
                   f == IF done /\ ~s.raised THEN FlushOnDone(s, total) ELSE s
               IN  /\ tool_buffer' = f.buf
                   /\ collecting_tool' = f.col
                   /\ db' = f.db
                   /\ chroma' = f.chroma
                   /\ events' = IF done /\ ~s.raised THEN Append(f.evs, DoneEvent) ELSE f.evs
                   /\ phase' = IF s.raised THEN "crashed"
                               ELSE IF done THEN "completed" ELSE "streaming"
    /\ received' = received \o token
    /\ done_seen' = (done /\ phase' # "crashed")
    /\ UNCHANGED <<now, result,
                   inflight, last_write>>

\* resp.aiter_lines() ends without a chunk flagged done
EndOfLines ==
    /\ phase = "streaming"
    /\ events' = Append(events, DoneEvent)
    /\ phase' = "completed"
    /\ UNCHANGED <<tool_buffer, collecting_tool, received, done_seen, db, chroma, now,
                   result,
                   inflight, last_write>>

Init ==
    /\ phase = "connecting"
    /\ tool_buffer = <<>>
    /\ collecting_tool = NoTool
    /\ events = <<>>
    /\ received = <<>>
    /\ done_seen = FALSE
    /\ db = InitialRows
    /\ chroma = InitialIndex
    /\ now = 1
    /\ result = NoResult
    /\ inflight = [c \in Callers |-> Idle]
    /\ last_write = {}

Next ==
    \/ \E status \in {200, 500} : Respond(status)
    \/ /\ phase = "streaming"
       /\ \E token \in NextTokens, done \in BOOLEAN : Chunk(token, done)
    \/ EndOfLines

Spec == Init /\ [][Next]_vars

----------------------------------------------------------------------------
(* Retrieval: db_all, db_keyword_search, search_memories *)

\* the orders of a finite set
Orders(S) ==
    {f \in [1..Cardinality(S) -> S] : \A i, j \in 1..Cardinality(S) : f[i] = f[j] => i = j}

\* SELECT title, content FROM memories ORDER BY updated_at DESC: SQL leaves the order
\* of rows with equal updated_at open, so every such order is a possible answer
db_all(rows) ==
    {[i \in 1..Len(o) |-> [title |-> o[i].title, content |-> o[i].content]] :
        o \in {f \in Orders(rows) :
                  \A i, j \in 1..Cardinality(rows) :
                      i < j => f[i].updated_at >= f[j].updated_at}}

\* s.split(): the maximal runs of characters that are not white space
RECURSIVE split(_)
split(s) ==
    IF s = <<>> THEN <<>>
    ELSE IF Head(s) \in WhiteSpace THEN split(Tail(s))
    ELSE LET stops == {i \in 1..Len(s) : s[i] \in WhiteSpace}
             n == IF stops = {} THEN Len(s) ELSE Min(stops) - 1
         IN  <<Take(s, n)>> \o split(Drop(s, n))

\* terms = [t for t in query.lower().split() if len(t) > 2]
Terms(query) == SelectSeq(split(lower(query)), LAMBDA t : Len(t) > 2)

\* mutant of Score: a term the query repeats is counted once
ScoreDistinctTerms(terms, row) ==
    LET haystack == lower(row.title \o <<" ">> \o row.content)
    IN  Cardinality({terms[i] : i \in {k \in 1..Len(terms) : Contains(haystack, terms[k])}})

\* sum(1 for t in terms if t in haystack), haystack = (title + " " + content).lower()
Score(terms, row) ==
    LET haystack == lower(row.title \o <<" ">> \o row.content)
    IN  Cardinality({i \in 1..Len(terms) : Contains(haystack, terms[i])})

\* seq[:n] for the rows of scored with score above v first, then those with score v:
\* list.sort(key=lambda x: -x[0]) is stable
RECURSIVE SortedByScore(_, _, _)
SortedByScore(terms, rows, v) ==
    IF v = 0 THEN <<>>
    ELSE SelectSeq(rows, LAMBDA r : Score(terms, r) = v) \o SortedByScore(terms, rows, v - 1)

\* db_keyword_search(query, n), rows being what db_all() answered
db_keyword_search(query, n, rows) ==
    IF Terms(query) = <<>>
    THEN Take(rows, n)
    ELSE Take(SortedByScore(Terms(query), rows, Len(Terms(query))), n)

\* mutant of NResults: the whole collection is asked for
NResultsCount(n, count) == count

\* n_results=min(n, memory_collection.count())
NResults(n, count) == IF n < count THEN n ELSE count

\* memory_collection.query: the n_results nearest entries, neighbours being the
\* collection in order of distance to the query embedding
VectorHits(n, neighbours) ==
    [i \in 1..NResults(n, Len(neighbours)) |->
        [title |-> neighbours[i].title, content |-> neighbours[i].document]]

\* How the vector tier of one search_memories call goes: _get_embedding returns
\* None ("no_embedding"), or a vector and then count() or query() raises
\* ("index_error"), or neither raises ("ok").
VectorOutcomes == {"ok", "no_embedding", "index_error"}

\* mutant of search_memories: the lexical tier's answer is returned even when empty
search_memories_without_fallback(query, n, vector, neighbours, rows) ==
    IF vector = "ok" /\ Len(neighbours) > 0 /\ VectorHits(n, neighbours) # <<>>
    THEN VectorHits(n, neighbours)
    ELSE db_keyword_search(query, n, rows)

\* search_memories(query, n).  vector: how the vector tier goes; neighbours: the
\* collection in order of distance to the query; rows: what db_all() answers.
search_memories(query, n, vector, neighbours, rows) ==
    IF vector = "ok" /\ Len(neighbours) > 0 /\ VectorHits(n, neighbours) # <<>>
    THEN VectorHits(n, neighbours)
    ELSE IF db_keyword_search(query, n, rows) # <<>>
         THEN db_keyword_search(query, n, rows)
         ELSE Take(rows, n)

----------------------------------------------------------------------------------------------------------------------------------------
(* The memory store as the REST endpoints and the chat exchanges use it:    *)
(* persist_memory, remove_memory and search_memories, one call at a time.  *)

Tea == <<"t", "e", "a">>

Cat == <<"c", "a", "t">>

LikesTea == <<"l", "i", "k", "e", "s", " ", "T", "e", "a">>

TomCat == <<"T", "o", "m", " ", "c", "a", "t">>

StoreTitles == {Tea, Cat}

StoreContents == {LikesTea, TomCat}

Queries ==
    { <<"h", "i", " ", "a", "b">>,                           \* no term longer than 2
      <<"t", "e", "a", " ", "C", "A", "T", "\t", "t", "e", "a">>,  \* a repeated term
      <<"d", "o", "g", "s">> }                               \* a term that matches nothing

\* the largest limit a search is called with
MaxLimit == 2

\* the last second of the clock
MaxClock == 1

\* a second passes
Tick ==
    /\ now < MaxClock
    /\ result = NoResult
    /\ now' = now + 1
    /\ UNCHANGED <<phase, tool_buffer, collecting_tool, events, received, done_seen, db,
                   chroma, result,
                   inflight, last_write>>

\* persist_memory(title, content)
Persist(title, content, outcome) ==
    /\ result = NoResult
    /\ db' = persist_memory(db, chroma, title, content, now, outcome).db
    /\ chroma' = persist_memory(db, chroma, title, content, now, outcome).chroma
    /\ UNCHANGED <<phase, tool_buffer, collecting_tool, events, received, done_seen, now,
                   result,
                   inflight, last_write>>

\* How one remove_memory call goes: db_delete raises ("db_error"), or it commits and
\* the index delete succeeds ("ok") or raises and is swallowed ("index_error").
RemoveOutcomes == {"ok", "index_error", "db_error"}

\* _chroma_delete: try: memory_collection.delete(ids=[title]) except: pass
index_delete(coll, title, outcome) ==
    IF outcome = "ok" THEN chroma_delete(coll, title) ELSE coll

\* remove_memory: db_delete first; nothing is changed when it raises
remove_memory(rows, coll, title, outcome) ==
    IF outcome = "db_error"
    THEN [db |-> rows, chroma |-> coll, raised |-> TRUE]
    ELSE [db |-> db_delete(rows, title), chroma |-> index_delete(coll, title, outcome),
          raised |-> FALSE]

\* remove_memory(title)
Remove(title, outcome) ==
    /\ result = NoResult
    /\ db' = remove_memory(db, chroma, title, outcome).db
    /\ chroma' = remove_memory(db, chroma, title, outcome).chroma
    /\ UNCHANGED <<phase, tool_buffer, collecting_tool, events, received, done_seen, now,
                   result,
                   inflight, last_write>>

\* relevant = search_memories(query, n).  neighbours is what the index was asked for
\* (nothing unless the vector tier got to query it) and rows what db_all() answered
\* (nothing when the vector tier returned).
Search(query, n, vector, neighbours, rows) ==
    /\ result = NoResult
    /\ result' = [called |-> TRUE, query |-> query, n |-> n, vector |-> vector,
                  neighbours |-> IF vector = "ok" THEN neighbours ELSE <<>>,
                  rows |-> IF vector = "ok" /\ Len(neighbours) > 0 THEN <<>> ELSE rows,
                  hits |-> search_memories(query, n, vector, neighbours, rows)]
    /\ UNCHANGED <<phase, tool_buffer, collecting_tool, events, received, done_seen, db,
                   chroma, now,
                   inflight, last_write>>

\* the caller has used the result
Return ==
    /\ result # NoResult
    /\ result' = NoResult
    /\ UNCHANGED <<phase, tool_buffer, collecting_tool, events, received, done_seen, db,
                   chroma, now,
                   inflight, last_write>>

StoreInit ==
    /\ phase = "idle"
    /\ tool_buffer = <<>>
    /\ collecting_tool = NoTool
    /\ events = <<>>
    /\ received = <<>>
    /\ done_seen = FALSE
    /\ db = {}
    /\ chroma = {}
    /\ now = 0
    /\ result = NoResult
    /\ inflight = [c \in Callers |-> Idle]
    /\ last_write = {}

StoreNext ==
    \/ Tick
    \/ \E t \in StoreTitles, c \in StoreContents, outcome \in PersistOutcomes :
           Persist(t, c, outcome)
    \/ \E t \in StoreTitles, outcome \in RemoveOutcomes : Remove(t, outcome)
    \/ /\ result = NoResult
       /\ \E q \in Queries, n \in 1..MaxLimit, vector \in VectorOutcomes,
             neighbours \in Orders(chroma), rows \in db_all(db) :
              Search(q, n, vector, neighbours, rows)
    \/ Return

StoreSpec == StoreInit /\ [][StoreNext]_vars

----------------------------------------------------------------------------
(* The store under concurrent callers.  The REST endpoints are plain        *)
(* functions, which the framework runs on worker threads, while            *)
(* _stream_chat runs on the event loop: a persist_memory or remove_memory  *)
(* call of one caller can run between the table write and the index step   *)
(* of another.  Each SQL statement commits atomically; no lock spans the    *)
(* two steps.                                                              *)

\* persist_memory line 168: db_upsert commits, or raises and ends the call
persist_table_step(rows, title, content, ts, ok) ==
    IF ok
    THEN [db |-> db_upsert(rows, title, content, ts), step |-> "index"]
    ELSE [db |-> rows, step |-> "raised"]

\* mutant of persist_index_step: a failing index step undoes the table write and
\* fails the call
persist_index_step_raising(rows, coll, title, content, outcome) ==
    IF outcome = "ok"
    THEN [db |-> rows, chroma |-> chroma_upsert(coll, title, content), step |-> "done"]
    ELSE [db |-> db_delete(rows, title), chroma |-> coll, step |-> "raised"]

\* persist_memory lines 169-172: _chroma_upsert under try/except; outcome is "ok",
\* "no_embedding" or "index_error"
persist_index_step(rows, coll, title, content, outcome) ==
    [db |-> rows,
     chroma |-> index_upsert(coll, title, content, outcome),
     step |-> IF outcome = "ok" THEN "done" ELSE "index_skipped"]

\* remove_memory line 176: db_delete commits, or raises and ends the call
remove_table_step(rows, title, ok) ==
    IF ok
    THEN [db |-> db_delete(rows, title), step |-> "index"]
    ELSE [db |-> rows, step |-> "raised"]

\* remove_memory line 177: _chroma_delete, which swallows what the index raises
remove_index_step(rows, coll, title, outcome) ==
    [db |-> rows,
     chroma |-> index_delete(coll, title, outcome),
     step |-> IF outcome = "ok" THEN "done" ELSE "index_skipped"]

\* the caller can start a call
Ready(c) == inflight[c].step # "index"

Written(title, op, content) == [title |-> title, op |-> op, content |-> content]

\* caller c calls persist_memory(title, content): the table write
BeginPersist(c, title, content, ok) ==
    /\ phase = "serving"
    /\ Ready(c)
    /\ db' = persist_table_step(db, title, content, now, ok).db
    /\ inflight' = [inflight EXCEPT ![c] =
                        [step |-> persist_table_step(db, title, content, now, ok).step,
                         op |-> "persist", title |-> title, content |-> content]]
    /\ last_write' = IF ok
                     THEN {w \in last_write : w.title # title}
                              \cup {Written(title, "upsert", content)}
                     ELSE last_write
    /\ UNCHANGED <<phase, tool_buffer, collecting_tool, events, received, done_seen,
                   chroma, now, result>>

\* caller c, in persist_memory after the table write: the index step
IndexUpsert(c, outcome) ==
    /\ phase = "serving"
    /\ inflight[c].step = "index"
    /\ inflight[c].op = "persist"
    /\ LET r == persist_index_step(db, chroma, inflight[c].title, inflight[c].content,
                                   outcome)
       IN  /\ db' = r.db
           /\ chroma' = r.chroma
           /\ inflight' = [inflight EXCEPT ![c].step = r.step]
    /\ UNCHANGED <<phase, tool_buffer, collecting_tool, events, received, done_seen,
                   now, result, last_write>>

\* caller c calls remove_memory(title): the table write
BeginRemove(c, title, ok) ==
    /\ phase = "serving"
    /\ Ready(c)
    /\ db' = remove_table_step(db, title, ok).db
    /\ inflight' = [inflight EXCEPT ![c] =
                        [step |-> remove_table_step(db, title, ok).step,
                         op |-> "remove", title |-> title, content |-> <<>>]]
    /\ last_write' = IF ok
                     THEN {w \in last_write : w.title # title}
                              \cup {Written(title, "delete", <<>>)}
                     ELSE last_write
    /\ UNCHANGED <<phase, tool_buffer, collecting_tool, events, received, done_seen,
                   chroma, now, result>>

\* caller c, in remove_memory after the table write: the index step
IndexDelete(c, outcome) ==
    /\ phase = "serving"
    /\ inflight[c].step = "index"
    /\ inflight[c].op = "remove"
    /\ LET r == remove_index_step(db, chroma, inflight[c].title, outcome)
       IN  /\ db' = r.db
           /\ chroma' = r.chroma
           /\ inflight' = [inflight EXCEPT ![c].step = r.step]
    /\ UNCHANGED <<phase, tool_buffer, collecting_tool, events, received, done_seen,
                   now, result, last_write>>

ConcInit ==
    /\ phase = "serving"
    /\ tool_buffer = <<>>
    /\ collecting_tool = NoTool
    /\ events = <<>>
    /\ received = <<>>
    /\ done_seen = FALSE
    /\ db = {}
    /\ chroma = {}
    /\ now = 0
    /\ result = NoResult
    /\ inflight = [c \in Callers |-> Idle]
    /\ last_write = {}

ConcNext ==
    \/ \E c \in Callers, t \in StoreTitles, x \in StoreContents, ok \in BOOLEAN :
           BeginPersist(c, t, x, ok)
    \/ \E c \in Callers, outcome \in PersistOutcomes \ {"db_error"} : IndexUpsert(c, outcome)
    \/ \E c \in Callers, t \in StoreTitles, ok \in BOOLEAN : BeginRemove(c, t, ok)
    \/ \E c \in Callers, outcome \in RemoveOutcomes \ {"db_error"} : IndexDelete(c, outcome)

ConcSpec == ConcInit /\ [][ConcNext]_vars

----------------------------------------------------------------------------
(* Reading the event stream and the received text, for the properties *)

TokenEvents == {i \in 1..Len(events) : events[i].type = "token"}

ToolEvents == {i \in 1..Len(events) : events[i].type = "tool"}

\* the user-visible reply: the token events' text, in order
RECURSIVE Passthrough(_)
Passthrough(evs) ==
    IF evs = <<>> THEN <<>>
    ELSE (IF Head(evs).type = "token" THEN Head(evs).token ELSE <<>>)
             \o Passthrough(Tail(evs))

\* marker occurs in text at 0-based offset i
OccursAt(text, marker, i) ==
    /\ i + Len(marker) <= Len(text)
    /\ \A k \in 1..Len(marker) : text[i + k] = marker[k]

HasStartMarker(text) ==
    \E i \in 0..Len(text), m \in {SAVE_MARKER, SUGGEST_MARKER} : OccursAt(text, m, i)

\* The directives of a text, read off the whole text at once: a directive starts at
\* the first start marker at or after the end of the previous one and ends with the
\* first ">>>" after its marker; the last one is open when no ">>>" follows.
RECURSIVE Directives(_, _)
Directives(text, from) ==
    LET starts == {i \in from..Len(text) :
                      \E m \in {SAVE_MARKER, SUGGEST_MARKER} : OccursAt(text, m, i)}
    IN  IF starts = {} THEN <<>>
        ELSE LET i == Min(starts)
                 m == CHOOSE x \in {SAVE_MARKER, SUGGEST_MARKER} : OccursAt(text, x, i)
                 ends == {j \in (i + Len(m))..Len(text) : OccursAt(text, TOOL_END, j)}
             IN  IF ends = {}
                 THEN <<[start |-> i, end |-> Len(text), marker |-> m, closed |-> FALSE,
                         body |-> <<>>]>>
                 ELSE <<[start |-> i, end |-> Min(ends) + Len(TOOL_END), marker |-> m,
                         closed |-> TRUE,
                         body |-> SubSeq(text, i + Len(m) + 1, Min(ends))]>>
                      \o Directives(text, Min(ends) + Len(TOOL_END))

Received == Directives(received, 0)

Closed == {k \in 1..Len(Received) : Received[k].closed}

Bars(body) == {i \in 1..Len(body) : body[i] = "|"}

\* offset p of the received text lies in a terminated directive
InClosed(p) == \E k \in Closed : Received[k].start <= p /\ p < Received[k].end

\* offset p of the received text was emitted in a token event
Emitted(p) == \E i \in TokenEvents : events[i].pos <= p /\ p < events[i].end

\* a token event carries exactly the received characters at its offsets
Faithful(i) ==
    /\ events[i].end <= Len(received)
    /\ events[i].token = SubSeq(received, events[i].pos + 1, events[i].end)

\* adjacent token events joined: the event stream up to how passthrough is cut
RECURSIVE Merge(_)
Merge(evs) ==
    IF Len(evs) < 2 THEN evs
    ELSE IF evs[1].type = "token" /\ evs[2].type = "token"
         THEN Merge(<<TokenEvent(evs[1].token \o evs[2].token, evs[1].pos)>>
                        \o Tail(Tail(evs)))
         ELSE <<evs[1]>> \o Merge(Tail(evs))

\* the table after the save_memory events of evs, applied in order
RECURSIVE Replay(_, _)
Replay(rows, evs) ==
    IF evs = <<>> THEN rows
    ELSE Replay(IF Head(evs).type = "tool" /\ Head(evs).tool = "save_memory"
                THEN db_upsert(rows, Head(evs).title, Head(evs).content, now)
                ELSE rows,
                Tail(evs))

\* the table holds exactly what the save_memory events wrote over the initial rows,
\* and the index nothing but initial entries and entries of save_memory events
StoreOnlyFromSaves ==
    /\ db = Replay(InitialRows, events)
    /\ \A e \in chroma :
           \/ e \in InitialIndex
           \/ \E i \in ToolEvents :
                  /\ events[i].tool = "save_memory"
                  /\ e = [id |-> events[i].title, document |-> events[i].content,
                          title |-> events[i].title]

\* the events of the same text delivered as one fragment flagged done
WholeDelivery(text) ==
    LET s == Intercept([buf |-> text, col |-> NoTool, evs |-> <<>>, db |-> InitialRows,
                        chroma |-> InitialIndex, ts |-> now, calls |-> 0,
                        raised |-> FALSE],
                       Len(text), AllOk(Len(text)))
    IN  Append(FlushOnDone(s, Len(text)).evs, DoneEvent)

EndedByDone == phase = "completed" /\ done_seen

----------------------------------------------------------------------------
(* C1..C9: the interceptor *)

\* C1: when a reply that ended with a chunk flagged done holds no start marker, the
\* token events concatenate to exactly the received text and there is no tool event.
C1_PlainTextPassesThrough ==
    (EndedByDone /\ ~HasStartMarker(received))
        => /\ Passthrough(events) = received
           /\ ToolEvents = {}

\* C1 witness: a marker-free reply longer than the hold-back, emitted in several
\* token events.
C1_Witness ==
    /\ EndedByDone
    /\ ~HasStartMarker(received)
    /\ Len(received) > HOLD_BACK
    /\ Cardinality(TokenEvents) >= 3

\* C2: no token event holds a complete start marker, and no token event carries a
\* character of a terminated directive (marker, body or ">>>") of the received text.
C2_NoDirectiveInsideToken ==
    \A i \in TokenEvents :
        /\ ~HasStartMarker(events[i].token)
        /\ Faithful(i)
        /\ \A p \in events[i].pos..(events[i].end - 1) : ~InClosed(p)

\* C2 witness: text was flushed while a start marker was only partly received, and
\* the directive it starts was later terminated, with text emitted after it.
C2_Witness ==
    \E k \in Closed :
        /\ \E i \in TokenEvents : events[i].end < Received[k].start
        /\ \E i \in TokenEvents : events[i].end = Received[k].start
        /\ \E i \in TokenEvents : events[i].pos >= Received[k].end

\* C3: however the reply was cut into fragments, once it has ended with a chunk
\* flagged done the events are those of delivering the same text as one fragment,
\* up to how the passthrough text is cut into token events.
C3_BoundaryIndependence ==
    EndedByDone => Merge(events) = Merge(WholeDelivery(received))

\* C3 witness: a reply with a directive event whose events differ from the
\* one-fragment delivery in how the passthrough is cut.
C3_Witness ==
    /\ EndedByDone
    /\ ToolEvents # {}
    /\ events # WholeDelivery(received)

MaxMarkerLength ==
    IF Len(SAVE_MARKER) > Len(SUGGEST_MARKER) THEN Len(SAVE_MARKER) ELSE Len(SUGGEST_MARKER)

Scanning == phase = "streaming" /\ collecting_tool = NoTool

\* C4 as stated: in Scanning mode, after each fragment, at most maxMarkerLength - 1
\* (17) characters are withheld.
C4_AtMostMarkerLengthMinusOne == Scanning => Len(tool_buffer) <= MaxMarkerLength - 1

\* C4 amended: in Scanning mode, after each fragment, at most 20 characters are
\* withheld, and every received character before them that is not part of a
\* terminated directive has been emitted in a token event.
C4_AtMostHoldBack ==
    Scanning
        => /\ Len(tool_buffer) <= HOLD_BACK
           /\ tool_buffer = Drop(received, Len(received) - Len(tool_buffer))
           /\ \A p \in 0..(Len(received) - Len(tool_buffer) - 1) : InClosed(p) \/ Emitted(p)

\* C4 witness: Scanning with 20 characters withheld after a flush.
C4_Witness ==
    /\ Scanning
    /\ Len(tool_buffer) = HOLD_BACK
    /\ TokenEvents # {}

\* C5: when the exchange has completed in Scanning mode, every received character
\* that is not part of a terminated directive has been emitted in a token event.
C5_NothingWithheldAtDone ==
    (phase = "completed" /\ collecting_tool = NoTool)
        => \A p \in 0..(Len(received) - 1) : InClosed(p) \/ Emitted(p)

ExpectedTool(marker) == IF marker = SAVE_MARKER THEN "save_memory" ELSE "suggest_memory"

BeforeFirstBar(body) == SubSeq(body, 1, Min(Bars(body)) - 1)

AfterFirstBar(body) == SubSeq(body, Min(Bars(body)) + 1, Len(body))

\* the tool events made from the terminated directive d
EventsOf(d) == {i \in ToolEvents : events[i].pos = d.start}

WithSeparator == {k \in Closed : Bars(Received[k].body) # {}}

C7_EventsInInputOrder ==
    \A i \in ToolEvents :
        /\ \A j \in TokenEvents :
               /\ Faithful(j)
               /\ j < i => events[j].end <= events[i].pos
               /\ j > i => events[j].pos >= events[i].end
        /\ \A j \in ToolEvents : j < i => events[j].end <= events[i].pos
        /\ \A p \in 0..(events[i].pos - 1) :
               InClosed(p) \/ \E j \in TokenEvents :
                                  j < i /\ events[j].pos <= p /\ p < events[j].end

\* C7 witness: prefix, directive, suffix gave token, tool event, token, done.
C7_Witness ==
    /\ EndedByDone
    /\ Len(events) = 4
    /\ events[1].type = "token" /\ events[1].token = Hi
    /\ events[2].type = "tool" /\ events[2].tool = "save_memory"
    /\ events[3].type = "token" /\ events[3].token = GotIt
    /\ events[4].type = "done"

WithoutSeparator == {k \in Closed : Bars(Received[k].body) = {}}

\* C8: a terminated directive without '|' has no tool event, none of its characters
\* is in a token event, the store holds only what the save_memory events wrote, and
\* once the reply has ended with a chunk flagged done in Scanning mode the text after
\* the directive that is outside directives has been emitted.
C8_NoSeparatorDropped ==
    \A k \in WithoutSeparator :
        /\ \A i \in ToolEvents :
               events[i].end <= Received[k].start \/ events[i].pos >= Received[k].end
        /\ \A i \in TokenEvents :
               events[i].end <= Received[k].start \/ events[i].pos >= Received[k].end
        /\ StoreOnlyFromSaves
        /\ (EndedByDone /\ collecting_tool = NoTool)
               => \A p \in Received[k].end..(Len(received) - 1) : InClosed(p) \/ Emitted(p)

\* C8 witness: a directive without '|' was dropped and the text after it emitted.
C8_Witness ==
    \E k \in WithoutSeparator :
        /\ EndedByDone
        /\ Received[k].body # <<>>
        /\ \E i \in TokenEvents : events[i].pos = Received[k].end
        /\ \E i \in TokenEvents : events[i].end = Received[k].start

\* offset at which tool_buffer starts in the received text
BufferStart == Len(received) - Len(tool_buffer)

\* C9: when the exchange has completed in Collecting mode, the last event is the
\* done event, no token or tool event carries text from the open start marker on,
\* and the store holds only what the save_memory events before it wrote.
C9_UnterminatedDiscarded ==
    (phase = "completed" /\ collecting_tool # NoTool)
        => /\ events[Len(events)].type = "done"
           /\ Cardinality({i \in 1..Len(events) : events[i].type = "done"}) = 1
           /\ Received[Len(Received)].closed = FALSE
           /\ Received[Len(Received)].start = BufferStart
           /\ \A i \in TokenEvents \cup ToolEvents : events[i].end <= BufferStart
           /\ StoreOnlyFromSaves

\* C9 witness: the reply ended, by a chunk flagged done, inside the body of a Save
\* directive that already holds a '|'.
C9_Witness ==
    /\ EndedByDone
    /\ collecting_tool = SAVE_MARKER
    /\ HasSeparator(Drop(tool_buffer, Len(SAVE_MARKER)))
    /\ TokenEvents # {}

----------------------------------------------------------------------------------------------------------------------------------------
(* C10: the tiers of search_memories *)

AtMost(n, seq) == SubSeq(seq, 1, IF n < Len(seq) THEN n ELSE Len(seq))

\* the records of the vector index nearest to the query, at most limit of them
Tier1(r) ==
    AtMost(r.n, [i \in 1..Len(r.neighbours) |->
                    [title |-> r.neighbours[i].title, content |-> r.neighbours[i].document]])

\* what the lexical tier answers
Tier2(r) == db_keyword_search(r.query, r.n, r.rows)

\* the limit most recently updated records
Tier3(r) == AtMost(r.n, r.rows)

\* the vector tier answered: embedding obtained, index not empty, no error, hits
Tier1Used(r) == r.vector = "ok" /\ chroma # {} /\ Tier1(r) # <<>>

\* C10: a search returns the vector tier's records when the embedding succeeded, the
\* index answered, is not empty and yields hits; otherwise the lexical tier's when it
\* yields a record; otherwise the most recently updated records; never more than
\* limit records.
C10_ExactlyOneTier ==
    result # NoResult
        => /\ Len(result.hits) <= result.n
           /\ IF Tier1Used(result)
              THEN /\ result.neighbours \in Orders(chroma)
                   /\ result.hits = Tier1(result)
              ELSE /\ result.rows \in db_all(db)
                   /\ result.hits = IF Tier2(result) # <<>> THEN Tier2(result)
                                    ELSE Tier3(result)

\* C10 witness: the index raised while holding two entries and the lexical tier
\* answered with one record, which is not what the fallback tier would return.
C10_Witness ==
    /\ result # NoResult
    /\ result.vector = "index_error"
    /\ Cardinality(chroma) = 2
    /\ Len(result.rows) = 2
    /\ Len(Terms(result.query)) > 0
    /\ Len(result.hits) = 1
    /\ result.hits = Tier2(result)
    /\ result.hits # Tier3(result)

----------------------------------------------------------------------------
(* C11: the score of the lexical tier *)

\* the lowercased white-space separated terms of the query longer than 2 characters
QualifyingTerms(query) ==
    LET words == split(lower(query))
    IN  [k \in {i \in 1..Len(words) : Len(words[i]) > 2} |-> words[k]]

\* lowercased title + " " + content
Haystack(row) == lower(row.title \o <<" ">> \o row.content)

\* the number of distinct qualifying terms of the query that occur in the record
DistinctTermScore(query, row) ==
    Cardinality({QualifyingTerms(query)[k] : k \in {i \in DOMAIN QualifyingTerms(query) :
                     Contains(Haystack(row), QualifyingTerms(query)[i])}})

\* the number of qualifying terms of the query, each counted as often as the query
\* has it, that occur in the record
TermOccurrenceScore(query, row) ==
    Cardinality({i \in DOMAIN QualifyingTerms(query) :
                    Contains(Haystack(row), QualifyingTerms(query)[i])})

\* the records of rows at the positions order lists
Pick(rows, order) == [a \in 1..Len(order) |-> rows[order[a]]]

\* rows with a positive score, by descending score, ties in the order of rows,
\* cut to n; sc[i] is the score of rows[i]
Ranked(rows, sc, n) ==
    LET pos == {i \in 1..Len(rows) : sc[i] > 0}
        order == CHOOSE p \in Orders(pos) :
                     \A a, b \in 1..Len(p) :
                         a < b => \/ sc[p[a]] > sc[p[b]]
                                  \/ sc[p[a]] = sc[p[b]] /\ p[a] < p[b]
    IN  AtMost(n, Pick(rows, order))

\* the lexical tier ran with at least one qualifying term
Tier2Scored(r) == ~Tier1Used(r) /\ DOMAIN QualifyingTerms(r.query) # {}

\* C11 as stated: when the lexical tier runs with a qualifying term, it yields the
\* records whose number of DISTINCT matching terms is positive, by descending
\* number, ties in listAll() order, cut to limit.
C11_DistinctTermsRanked ==
    (result # NoResult /\ Tier2Scored(result))
        => LET ranked == Ranked(result.rows,
                                [i \in 1..Len(result.rows) |->
                                    DistinctTermScore(result.query, result.rows[i])],
                                result.n)
           IN  ranked # <<>> => result.hits = ranked

\* C11 amended: when the lexical tier runs with a qualifying term, it yields the
\* records matching at least one term, by descending number of matching terms where
\* a term the query repeats counts once per repetition, ties in listAll() order,
\* cut to limit; when no record matches, the fallback tier answers.
C11_TermOccurrencesRanked ==
    (result # NoResult /\ Tier2Scored(result))
        => LET ranked == Ranked(result.rows,
                                [i \in 1..Len(result.rows) |->
                                    TermOccurrenceScore(result.query, result.rows[i])],
                                result.n)
           IN  /\ ranked # <<>> => result.hits = ranked
               /\ ranked = <<>> => result.hits = AtMost(result.n, result.rows)

\* C11 witness: the query repeats a term, two records match, and the one updated
\* less recently is ranked first because it matches the repeated term.
C11_Witness ==
    /\ result # NoResult
    /\ Tier2Scored(result)
    /\ Len(result.rows) = 2
    /\ result.n = 2
    /\ result.hits = <<result.rows[2], result.rows[1]>>
    /\ DistinctTermScore(result.query, result.rows[1])
           = DistinctTermScore(result.query, result.rows[2])
    /\ \E r1, r2 \in db : /\ r1.title = result.rows[1].title
                          /\ r2.title = result.rows[2].title
                          /\ r1.updated_at > r2.updated_at

----------------------------------------------------------------------------
(* C12: search is never memory-blind *)

\* C12: whenever the table holds a record, a search with limit >= 1 returns at least
\* one record, whatever the query, the embedding call and the index did; an empty
\* answer is given only for an empty table, and an empty table is answered with
\* nothing unless the vector tier answered from entries the index still holds.
C12_NeverMemoryBlind ==
    result # NoResult => (result.hits = <<>> <=> db = {})
                             \/ (db = {} /\ Tier1Used(result))

\* C12 witness: the table holds a record, no embedding was obtained, the index is
\* empty and no term of the query matches: the fallback tier answered.
C12_Witness ==
    /\ result # NoResult
    /\ db # {}
    /\ chroma = {}
    /\ result.vector = "no_embedding"
    /\ DOMAIN QualifyingTerms(result.query) # {}
    /\ \A i \in 1..Len(result.rows) : TermOccurrenceScore(result.query, result.rows[i]) = 0
    /\ result.hits # <<>>

----------------------------------------------------------------------------
(* C13: table write first, best-effort index step second *)

\* the rows of titles other than title are the same in both tables
SameElsewhere(before, after, title) ==
    {r \in before : r.title # title} = {r \in after : r.title # title}

\* what one step does to the call of caller c, a being the call before and b after
C13_Step(c, a, b) ==
    \* the table write failed: the call fails, and neither table nor index is touched
    /\ (b # a /\ b.step = "raised") => (db' = db /\ chroma' = chroma)
    \* the table write succeeded: the table holds the write, the index is untouched
    /\ (b # a /\ b.step = "index")
           => /\ chroma' = chroma
              /\ SameElsewhere(db, db', b.title)
              /\ b.op = "persist"
                     => {r.content : r \in {q \in db' : q.title = b.title}} = {b.content}
              /\ b.op = "remove" => b.title \notin Titles(db')
    \* the index step: the call succeeds whatever the index did, and the table is
    \* as the index step found it
    /\ (b # a /\ a.step = "index")
           => /\ b.step \in {"done", "index_skipped"}
              /\ [b EXCEPT !.step = "index"] = a
              /\ db' = db
              /\ b.step = "index_skipped" => chroma' = chroma
              /\ (a.op = "remove" /\ Written(a.title, "delete", <<>>) \in last_write)
                     => a.title \notin Titles(db')

\* C13: persist_memory and remove_memory write the table first and touch the index
\* only after that write has committed; when the table write fails the index is not
\* touched and the call fails; a failing index step (no embedding, index error) is
\* swallowed: the call succeeds and the table is left as it was written, so a title
\* deleted after its upsert is gone from the table even when the index delete fails.
C13_TableFirstIndexBestEffort ==
    [][/\ \A c \in Callers : C13_Step(c, inflight[c], inflight'[c])
       /\ chroma' # chroma
              => \E c \in Callers : inflight[c].step = "index" /\ inflight'[c].step = "done"
      ]_vars

\* C13 witness: a title was persisted and indexed, then removed by a call whose
\* index delete failed: the call succeeded, the table no longer holds the title, the
\* index still does.
C13_Witness ==
    \E c \in Callers :
        /\ inflight[c].step = "index_skipped"
        /\ inflight[c].op = "remove"
        /\ inflight[c].title \notin Titles(db)
        /\ inflight[c].title \in {e.id : e \in chroma}
        /\ Written(inflight[c].title, "delete", <<>>) \in last_write

----------------------------------------------------------------------------
(* C14: writing an existing title again *)

\* get(title): the contents the table holds under title
Get(rows, title) == {r.content : r \in {q \in rows : q.title = title}}

CreatedAt(rows, title) == {r.created_at : r \in {q \in rows : q.title = title}}

\* C14: every persist_memory(t, c) whose table write commits on a table that holds t
\* leaves get(t) = c, the number of records and created_at of t as they were, and t
\* the first record of every answer listAll() can give.
C14_ReupsertMovesToFront ==
    [][\A t \in StoreTitles, c \in StoreContents, outcome \in PersistOutcomes \ {"db_error"} :
           (t \in Titles(db) /\ Persist(t, c, outcome))
               => /\ Get(db', t) = {c}
                  /\ Cardinality(db') = Cardinality(db)
                  /\ CreatedAt(db', t) = CreatedAt(db, t)
                  /\ \A rows \in db_all(db') : rows[1].title = t
      ]_vars

----------------------------------------------------------------------------
(* C15: a save is confirmed only after it was written *)

SaveEvents == {i \in ToolEvents : events[i].tool = "save_memory"}

\* the last save_memory event with the title of event i
LastSaveOf(i) ==
    CHOOSE j \in SaveEvents :
        /\ events[j].title = events[i].title
        /\ \A k \in SaveEvents : events[k].title = events[i].title => k <= j

\* the Save directives with a '|' that have no event
Unconfirmed ==
    {k \in WithSeparator : Received[k].marker = SAVE_MARKER /\ EventsOf(Received[k]) = {}}

\* C15: whenever a save_memory event has been emitted, the table holds its title,
\* written in this exchange, with the content of the last save_memory event of that
\* title; when a table write has failed, the Save directive it was for (the first
\* one without an event) has no event, nothing from it or after it was emitted and
\* the table holds no write of it; otherwise every Save directive with a '|' has
\* its event.
C15_ConfirmedOnlyAfterWrite ==
    /\ \A i \in SaveEvents :
           \E r \in db : /\ r.title = events[i].title
                         /\ r.content = events[LastSaveOf(i)].content
                         /\ r.updated_at = now
    /\ phase = "crashed"
           => /\ Unconfirmed # {}
              /\ \A i \in 1..Len(events) : events[i].end <= Received[Min(Unconfirmed)].start
              /\ db = Replay(InitialRows, events)
    /\ phase # "crashed" => Unconfirmed = {}

\* C15 witness: the first Save of a title was written and confirmed, and the table
\* write of a second Save of the same title failed: the table holds the first content
\* and there is one save_memory event.
C15_Witness ==
    /\ phase = "crashed"
    /\ Cardinality(SaveEvents) = 1
    /\ \A i \in SaveEvents : Get(db, events[i].title) = {events[i].content}
    /\ \E k \in Unconfirmed :
           \A i \in SaveEvents : events[i].title = NormTitle(BeforeFirstBar(Received[k].body))

----------------------------------------------------------------------------
(* C16: only Save directives write the store *)

\* the terminated Save directives with a '|' of the received text
SaveDirectives ==
    {k \in WithSeparator : Received[k].marker = SAVE_MARKER}

\* the table after one upsert per terminated Save directive with a '|' among the
\* first n directives, in the order of the text
RECURSIVE TableAfter(_)
TableAfter(n) ==
    IF n = 0 THEN InitialRows
    ELSE IF n \in SaveDirectives
         THEN db_upsert(TableAfter(n - 1),
                        NormTitle(BeforeFirstBar(Received[n].body)),
                        strip(AfterFirstBar(Received[n].body)), now)
         ELSE TableAfter(n - 1)

\* C16: the index holds nothing but its initial entries and entries of Save
\* directives with a '|'; with no such directive in the reply, table and index are as
\* the exchange found them, whatever Suggest, malformed or unterminated directives
\* the reply holds; and unless a table write failed, the table is the initial one
\* after one upsert per Save directive with a '|', in order.
C16_OnlySavesWriteTheStore ==
    /\ \A e \in chroma :
           \/ e \in InitialIndex
           \/ \E k \in SaveDirectives :
                  /\ e.id = NormTitle(BeforeFirstBar(Received[k].body))
                  /\ e.document = strip(AfterFirstBar(Received[k].body))
    /\ SaveDirectives = {} => (db = InitialRows /\ chroma = InitialIndex)
    /\ phase # "crashed" => db = TableAfter(Len(Received))

\* C16 witness: an exchange completed whose reply held a Suggest directive with a
\* '|', notified in a suggest_memory event, and no Save directive with a '|', with
\* table and index as they were.
C16_Witness ==
    /\ phase = "completed"
    /\ \E i \in ToolEvents : events[i].tool = "suggest_memory"
    /\ Len(Received) >= 1
    /\ SaveDirectives = {}
    /\ db = InitialRows
    /\ chroma = InitialIndex

----------------------------------------------------------------------------
(* C17: the status of the chat backend's response *)

EventsOfType(type) == {i \in 1..Len(events) : events[i].type = type}

\* the exchange has ended: the generator returned or an exception left it
Ended == phase \in {"failed", "completed", "crashed"}

\* C17: an exchange whose response has a non-success status emits exactly one event,
\* the error event with the response body, reads no token and leaves table and index
\* alone; an exchange whose response has status 200 emits no error event and, when
\* it has ended, has emitted exactly one done event, as its last event.
C17_ErrorOrDone ==
    /\ phase = "failed"
           => /\ events = <<ErrorEvent("body")>>
              /\ received = <<>>
              /\ tool_buffer = <<>>
              /\ db = InitialRows
              /\ chroma = InitialIndex
    /\ phase # "failed" => EventsOfType("error") = {}
    /\ (Ended /\ phase # "failed")
           => /\ Cardinality(EventsOfType("done")) = 1
              /\ Len(events) \in EventsOfType("done")
    /\ ~Ended => EventsOfType("done") = {}

----------------------------------------------------------------------------
(* C18: last write wins under concurrent callers *)

\* the last write committed to the table for title, if any
LastWrites(title) == {w \in last_write : w.title = title}

\* C18: however the table writes and index steps of concurrent persist_memory and
\* remove_memory calls interleave, the table holds at most one row per title; a
\* title whose last committed write is an upsert has that upsert's content, and a
\* title whose last committed write is a delete, or that was never written, has no
\* row.
C18_LastWriteWins ==
    /\ \A r1, r2 \in db : r1.title = r2.title => r1 = r2
    /\ \A t \in StoreTitles :
           /\ Cardinality(LastWrites(t)) <= 1
           /\ LastWrites(t) = {} => t \notin Titles(db)
           /\ \A w \in LastWrites(t) :
                  IF w.op = "upsert" THEN Get(db, t) = {w.content}
                  ELSE t \notin Titles(db)

\* C18 witness: both callers have written the same title with different contents and
\* neither has done its index step yet; the table holds the content written last.
C18_Witness ==
    /\ inflight["loop"].step = "index"
    /\ inflight["worker"].step = "index"
    /\ inflight["loop"].op = "persist"
    /\ inflight["worker"].op = "persist"
    /\ inflight["loop"].title = inflight["worker"].title
    /\ inflight["loop"].content # inflight["worker"].content
    /\ Written(inflight["loop"].title, "upsert", inflight["loop"].content) \in last_write
    /\ Get(db, inflight["loop"].title) = {inflight["loop"].content}

----------------------------------------------------------------------------
(* C19: the reply the user sees *)

\* C19: the text of the token events emitted so far, joined in order, holds no
\* complete start marker.
C19_NoMarkerInReply == ~HasStartMarker(Passthrough(events))

----------------------------------------------------------------------------
(* C20: what search returns and what the table holds *)

\* C20: every record a search returns has a title the table holds, with the
\* content the table holds for it; an empty table is answered with nothing.
C20_SearchReturnsTableRecords ==
    result # NoResult
        => /\ \A i \in 1..Len(result.hits) :
                  Get(db, result.hits[i].title) = {result.hits[i].content}
           /\ db = {} => result.hits = <<>>

====
